---- MODULE Spec2Model ----
(***************************************************************************)
(* parex.TaskManager (src/parex.py): launch shell commands with three      *)
(* pipes each, then multiplex their stdout/stderr pipes in wait() until    *)
(* every tracked process has been retired.                                 *)
(*                                                                         *)
(* Manager state is the five dictionaries of __init__.  The environment    *)
(* is the spawned processes (what each has written to and whether it has   *)
(* closed its two pipes) and the poller the build selected.                *)
(*                                                                         *)
(* Bytes are identified by (channel, position in that channel's stream).   *)
(* A byte string is kept as a sequence of runs <<ch, lo, hi>> standing for *)
(* the bytes lo+1..hi of channel ch; adjacent runs of one channel that     *)
(* continue each other are merged, so equal byte strings have equal        *)
(* representations.                                                        *)
(***************************************************************************)
EXTENDS Integers, Sequences, FiniteSets, TLC

\* ---- bounds of the model
MaxPid == 2          \* processes spawned over the manager's lifetime
MaxFd == 6           \* descriptor numbers 1..MaxFd the OS hands out
BigWrite == 4097     \* bytes a talkative child writes on stdout (more than one read chunk)
SmallWrite == 1      \* bytes a talkative child writes on stderr
FirstWrite == 4096   \* a child may write its output in two parts, the first this long

\* ---- constants of the program
EPOLLIN == 1
EPOLLHUP == 16
EPOLLRDHUP == 8192
EPOLLERR == 8
EPOLLOUT == 4
READ == EPOLLIN
WRITE == EPOLLOUT
ERROR == EPOLLERR + EPOLLHUP + EPOLLRDHUP   \* the three bits are disjoint
FDIN == READ
FDOUT == WRITE
FDERR == ERROR
ChunkSize == 4096    \* os.read(fd, 4096)

NoPid == 0           \* self.fds.get(fd, None): None, and falsy like pid 0

FDS == 1..MaxFd
CH == {2, 3}         \* index in the (stdin, stdout, stderr) tuple
OutTotals == {0, BigWrite}
ErrTotals == {0, SmallWrite}

VARIABLES
    processes,       \* pid -> <<stdin fd, stdout fd, stderr fd>>
    processgbprot,   \* pid -> <<closed?, closed?, closed?>> of the file objects
    fds,             \* fd -> pid
    fdtype,          \* fd -> FDIN | FDOUT | FDERR
    data,            \* pid -> bytes accumulated (runs)
    pc,              \* "idle" outside wait(); "loop" at the while test; "for" in the event loop
    active,          \* events of the current poll not handled yet: {<<fd, state>>}
    ret,             \* outcome of the last call: <<"pid", pid>>, <<"SpawnError", _>>, <<"returned", _>>, ...
    poller,          \* "epoll" (select.epoll) or "select" (tornado fallback)
    proc,            \* environment: pid -> what the child wrote / closed / what was read
    nextpid          \* the pid the OS hands out next

vars == <<processes, processgbprot, fds, fdtype, data, pc, active, ret, poller, proc, nextpid>>

\* ---- dictionaries
Put(f, k, v) == [x \in DOMAIN f \cup {k} |-> IF x = k THEN v ELSE f[x]]
Del(f, k) == [x \in DOMAIN f \ {k} |-> f[x]]
Get(f, k) == IF k \in DOMAIN f THEN f[k] ELSE NoPid
Empty == [x \in {} |-> 0]
Min(a, b) == IF a < b THEN a ELSE b

\* ---- byte strings as runs
WriteFresh(buf, ch, lo, hi) == <<<<ch, lo, hi>>>>
\* buf followed by the bytes lo+1..hi of channel ch
Write(buf, ch, lo, hi) ==
    IF Len(buf) > 0 /\ buf[Len(buf)][1] = ch /\ buf[Len(buf)][3] = lo
    THEN [buf EXCEPT ![Len(buf)] = <<ch, buf[Len(buf)][2], hi>>]
    ELSE Append(buf, <<ch, lo, hi>>)

RECURSIVE NBytes(_)
NBytes(buf) == IF buf = <<>> THEN 0
               ELSE (buf[1][3] - buf[1][2]) + NBytes(Tail(buf))

\* the bytes of channel ch in buf, in buffer order
RECURSIVE Chan(_, _)
Chan(buf, ch) ==
    IF buf = <<>> THEN <<>>
    ELSE LET rest == Chan(Tail(buf), ch)
         IN IF buf[1][1] # ch THEN rest
            ELSE IF rest # <<>> /\ rest[1][2] = buf[1][3]
                 THEN <<<<ch, buf[1][2], rest[1][3]>>>> \o Tail(rest)
                 ELSE <<buf[1]>> \o rest

Stream(ch, k) == IF k = 0 THEN <<>> ELSE <<<<ch, 0, k>>>>

\* ---- environment: the pipe behind an open descriptor
\* a descriptor number belongs to the tracked child whose file object for it is
\* open (a number freed by close() can be handed out again)
Owner(fd) == CHOOSE p \in DOMAIN processes :
                \E i \in 1..3 : processes[p][i] = fd /\ ~processgbprot[p][i]
Index(t, fd) == CHOOSE i \in 1..3 : t[i] = fd
Avail(p, ch) == proc[p].written[ch] - proc[p].rd[ch]

\* what the poller reports for a registered descriptor, 0 when not ready
PollState(fd) ==
    LET p == Owner(fd)
        ch == Index(processes[p], fd)
        a == Avail(p, ch)
        c == proc[p].wclosed[ch]
    IN IF poller = "epoll"
       THEN (IF a > 0 THEN EPOLLIN ELSE 0) + (IF c THEN EPOLLHUP ELSE 0)
       ELSE (IF a > 0 \/ c THEN READ ELSE 0)

\* the descriptor is an open pipe end of a tracked child
Open(fd) == \E p \in DOMAIN processes :
                \E i \in 1..3 : processes[p][i] = fd /\ ~processgbprot[p][i]

RegisteredAll == DOMAIN fds
RegisteredOutOnly == {x \in DOMAIN fds : fdtype[x] \in {FDOUT}}
RegisteredErrOnly == {x \in DOMAIN fds : fdtype[x] \in {FDERR}}
\* line 96: the descriptors wait() registers with the poller
Registered == {x \in DOMAIN fds : fdtype[x] \in {FDOUT, FDERR}}

Init ==
    /\ processes = Empty
    /\ processgbprot = Empty
    /\ fds = Empty
    /\ fdtype = Empty
    /\ data = Empty
    /\ pc = "idle"
    /\ active = {}
    /\ ret = <<"none", NoPid>>
    /\ poller \in {"epoll", "select"}
    /\ proc = Empty
    /\ nextpid = 1

\* descriptors no tracked process holds open
FreeFds == {x \in FDS : ~Open(x)}

RegisterNoErr(f, t, pid) == Put(Put(f, t[1], pid), t[2], pid)
Register(f, t, pid) == Put(Put(Put(f, t[1], pid), t[2], pid), t[3], pid)
TagKeepOld(f, t) ==
    [x \in DOMAIN f \cup {t[1], t[2], t[3]} |->
        IF x \in DOMAIN f THEN f[x]
        ELSE IF x = t[1] THEN FDIN ELSE IF x = t[2] THEN FDOUT ELSE FDERR]
TagInAsOut(f, t) == Put(Put(Put(f, t[1], FDOUT), t[2], FDOUT), t[3], FDERR)
Tag(f, t) == Put(Put(Put(f, t[1], FDIN), t[2], FDOUT), t[3], FDERR)

\* Popen succeeds: the OS hands out a pid it has not used before and three
\* descriptors no tracked child holds (stdin < stdout < stderr)
Execute ==
    /\ pc = "idle"
    /\ nextpid <= MaxPid
    /\ \E i, o, e \in FreeFds, to \in OutTotals, te \in ErrTotals :
        /\ o = i + 1 /\ e = o + 1
        /\ processes' = Put(processes, nextpid, <<i, o, e>>)
        /\ processgbprot' = Put(processgbprot, nextpid, <<FALSE, FALSE, FALSE>>)
        /\ fds' = Register(fds, <<i, o, e>>, nextpid)
        /\ fdtype' = Tag(fdtype, <<i, o, e>>)
        /\ proc' = Put(proc, nextpid,
                       [total |-> <<0, to, te>>, written |-> <<0, 0, 0>>,
                        rd |-> <<0, 0, 0>>, wclosed |-> <<FALSE, FALSE, FALSE>>])
    /\ ret' = <<"pid", nextpid>>
    /\ nextpid' = nextpid + 1
    /\ UNCHANGED <<data, pc, active, poller>>

ExecuteFailLeak ==
    /\ pc = "idle"
    /\ ret' = <<"SpawnError", NoPid>>
    /\ data' = Put(data, nextpid, <<>>)
    /\ UNCHANGED <<processes, processgbprot, fds, fdtype, pc, active, poller, proc, nextpid>>

\* Popen raises before line 79 is reached
ExecuteFail ==
    /\ pc = "idle"
    /\ ret' = <<"SpawnError", NoPid>>
    /\ UNCHANGED <<processes, processgbprot, fds, fdtype, data, pc, active, poller, proc, nextpid>>

WaitCall ==
    /\ pc = "idle"
    /\ pc' = "loop"
    /\ ret' = <<"waiting", NoPid>>
    /\ UNCHANGED <<processes, processgbprot, fds, fdtype, data, active, poller, proc, nextpid>>

WaitReturn ==
    /\ pc = "loop"
    /\ DOMAIN processes = {}
    /\ pc' = "idle"
    /\ ret' = <<"returned", NoPid>>
    /\ UNCHANGED <<processes, processgbprot, fds, fdtype, data, active, poller, proc, nextpid>>

Poll ==
    /\ pc = "loop"
    /\ DOMAIN processes # {}
    /\ \A x \in Registered : Open(x)
    /\ active' = {<<fd, PollState(fd)>> : fd \in {x \in Registered : PollState(x) # 0}}
    /\ pc' = "for"
    /\ UNCHANGED <<processes, processgbprot, fds, fdtype, data, ret, poller, proc, nextpid>>

CompleteAtTwo(remaining) == Cardinality(remaining) <= 2
CompleteNever(remaining) == Cardinality(remaining) = 0
\* len(remaining) == 1
Complete(remaining) == Cardinality(remaining) = 1

SettleDropsBuffer(fd, pid, n, lo, gb) ==
    IF n = 0
    THEN LET fds1 == Del(fds, fd)
             remaining == {x \in {processes[pid][i] : i \in 1..3} : Get(fds1, x) # NoPid}
         IN /\ fds' = fds1
            /\ IF Complete(remaining)
               THEN /\ processes' = Del(processes, pid)
                    /\ processgbprot' = Del(gb, pid)
                    /\ data' = Del(data, pid)
               ELSE /\ processes' = processes
                    /\ processgbprot' = gb
                    /\ data' = data
    ELSE /\ data' = Put(data, pid,
                        Write(IF pid \in DOMAIN data THEN data[pid] ELSE <<>>,
                              Index(processes[pid], fd), lo, lo + n))
         /\ fds' = fds
         /\ processes' = processes
         /\ processgbprot' = gb

SettleFirstBuffer(fd, pid, n, lo, gb) ==
    IF n = 0
    THEN LET fds1 == Del(fds, fd)
             remaining == {x \in {processes[pid][i] : i \in 1..3} : Get(fds1, x) # NoPid}
         IN /\ fds' = fds1
            /\ IF Complete(remaining)
               THEN /\ processes' = Del(processes, pid)
                    /\ processgbprot' = Del(gb, pid)
               ELSE /\ processes' = processes
                    /\ processgbprot' = gb
            /\ data' = data
    ELSE /\ data' = Put(data, 1,
                        Write(IF 1 \in DOMAIN data THEN data[1] ELSE <<>>,
                              Index(processes[pid], fd), lo, lo + n))
         /\ fds' = fds
         /\ processes' = processes
         /\ processgbprot' = gb

\* lines 109-117 once d is known: n bytes were read (0 for d = '')
Settle(fd, pid, n, lo, gb) ==
    IF n = 0
    THEN LET fds1 == Del(fds, fd)
             remaining == {x \in {processes[pid][i] : i \in 1..3} : Get(fds1, x) # NoPid}
         IN /\ fds' = fds1
            /\ IF Complete(remaining)
               THEN /\ processes' = Del(processes, pid)
                    /\ processgbprot' = Del(gb, pid)
               ELSE /\ processes' = processes
                    /\ processgbprot' = gb
            /\ data' = data
    ELSE /\ data' = Put(data, pid,
                        Write(IF pid \in DOMAIN data THEN data[pid] ELSE <<>>,
                              Index(processes[pid], fd), lo, lo + n))
         /\ fds' = fds
         /\ processes' = processes
         /\ processgbprot' = gb

\* lines 102-117 as a function of the event: the manager state after handling
\* <<fd, state>> when the read, if there is one, returns n bytes
After(fd, state, n) ==
    LET pid == Get(fds, fd)
        i == Index(processes[pid], fd)
        d == IF state = READ THEN n ELSE 0
        gb == IF state # READ /\ state \in {EPOLLHUP, EPOLLRDHUP}
              THEN [processgbprot EXCEPT ![pid][i] = TRUE]
              ELSE processgbprot
        fds1 == Del(fds, fd)
        remaining == {x \in {processes[pid][j] : j \in 1..3} : Get(fds1, x) # NoPid}
    IN IF d = 0
       THEN [fds |-> fds1,
             processes |-> IF Complete(remaining) THEN Del(processes, pid) ELSE processes,
             processgbprot |-> IF Complete(remaining) THEN Del(gb, pid) ELSE gb,
             data |-> data]
       ELSE [fds |-> fds,
             processes |-> processes,
             processgbprot |-> gb,
             data |-> Put(data, pid,
                          Write(IF pid \in DOMAIN data THEN data[pid] ELSE <<>>,
                                i, proc[pid].rd[i], proc[pid].rd[i] + d))]

HandleEvent ==
    /\ pc = "for"
    /\ \E ev \in active :
        LET fd == ev[1]
            state == ev[2]
            pid == Get(fds, fd)
            p == Owner(fd)
            ch == Index(processes[p], fd)
            n == IF state = READ THEN Min(ChunkSize, Avail(p, ch)) ELSE 0
            gb == IF state # READ /\ state \in {EPOLLHUP, EPOLLRDHUP}
                  THEN [processgbprot EXCEPT ![pid][Index(processes[pid], fd)] = TRUE]
                  ELSE processgbprot
        IN /\ pid \in DOMAIN processes
           /\ state = READ /\ n = 0 => proc[p].wclosed[ch]
           /\ active' = active \ {ev}
           /\ proc' = [proc EXCEPT ![p].rd[ch] = @ + n]
           /\ Settle(fd, pid, n, proc[p].rd[ch], gb)
    /\ UNCHANGED <<fdtype, pc, ret, poller, nextpid>>

PollFailDropsBuffers ==
    /\ pc = "loop"
    /\ DOMAIN processes # {}
    /\ pc' = "idle"
    /\ ret' = <<"MultiplexError", NoPid>>
    /\ data' = [p \in DOMAIN data \ DOMAIN processes |-> data[p]]
    /\ UNCHANGED <<processes, processgbprot, fds, fdtype, active, poller, proc, nextpid>>

\* _poll(), iop.register or iop.poll raises: the exception leaves wait()
PollFail ==
    /\ pc = "loop"
    /\ DOMAIN processes # {}
    /\ pc' = "idle"
    /\ ret' = <<"MultiplexError", NoPid>>
    /\ UNCHANGED <<processes, processgbprot, fds, fdtype, data, active, poller, proc, nextpid>>

EndFor ==
    /\ pc = "for"
    /\ active = {}
    /\ pc' = "loop"
    /\ UNCHANGED <<processes, processgbprot, fds, fdtype, data, active, ret, poller, proc, nextpid>>

\* ---- the children
ChildWrite ==
    \E p \in DOMAIN proc, ch \in CH :
        LET left == proc[p].total[ch] - proc[p].written[ch]
        IN /\ ~proc[p].wclosed[ch]
           /\ left > 0
           /\ \E n \in {left, Min(left, FirstWrite)} :
                proc' = [proc EXCEPT ![p].written[ch] = @ + n]
           /\ UNCHANGED <<processes, processgbprot, fds, fdtype, data, pc, active, ret, poller, nextpid>>

ChildClose ==
    \E p \in DOMAIN proc, ch \in CH :
        /\ ~proc[p].wclosed[ch]
        /\ proc[p].written[ch] = proc[p].total[ch]
        /\ proc' = [proc EXCEPT ![p].wclosed[ch] = TRUE]
        /\ UNCHANGED <<processes, processgbprot, fds, fdtype, data, pc, active, ret, poller, nextpid>>

Next ==
    \/ Execute
    \/ ExecuteFail
    \/ WaitCall
    \/ WaitReturn
    \/ Poll
    \/ HandleEvent
    \/ EndFor
    \/ ChildWrite
    \/ ChildClose

Spec == Init /\ [][Next]_vars

\* the same program with a readiness mechanism that can fail
NextAbort ==
    \/ Next
    \/ PollFail

SpecAbort == Init /\ [][NextAbort]_vars

\* the control thread keeps running once inside wait(), and every child
\* eventually writes what it has to write and closes its pipes
FairSpec ==
    /\ Spec
    /\ WF_vars(Poll) /\ WF_vars(HandleEvent) /\ WF_vars(EndFor) /\ WF_vars(WaitReturn)
    /\ WF_vars(ChildWrite) /\ WF_vars(ChildClose)

\* ---- vocabulary of the properties
Launched == DOMAIN proc
Tracked == DOMAIN processes
Buf(p) == IF p \in DOMAIN data THEN data[p] ELSE <<>>
WaitReturned == pc = "idle" /\ ret[1] = "returned"
InWait == pc # "idle"
Exited(p) == \A ch \in CH : proc[p].wclosed[ch] /\ proc[p].written[ch] = proc[p].total[ch]

\* every event the loop is about to handle belongs to a tracked process whose
\* descriptor is still in the registry (no KeyError in lines 107-113)
\* and a read never blocks: bytes are waiting or the child has closed the pipe
HandlerDefined ==
    \A ev \in active :
        LET pid == Get(fds, ev[1])
        IN /\ pid \in DOMAIN processes
           /\ \E i \in 2..3 :
                /\ processes[pid][i] = ev[1]
                /\ ev[2] = READ => (Avail(pid, i) > 0 \/ proc[pid].wclosed[i])

\* C1: a process that wrote K bytes on stdout, none on stderr, and exited has
\* exactly those K bytes, in order, in data[pid] once wait() has returned.
C1_StdoutExact ==
    WaitReturned =>
        \A p \in Launched :
            (Exited(p) /\ proc[p].total[3] = 0) => Buf(p) = Stream(2, proc[p].total[2])

\* C2: after wait() data[pid] holds every byte of both channels exactly once.
C2_BothChannelsOnce ==
    WaitReturned =>
        \A p \in Launched :
            (Exited(p) /\ proc[p].total[2] > 0 /\ proc[p].total[3] > 0) =>
                /\ Chan(Buf(p), 2) = Stream(2, proc[p].total[2])
                /\ Chan(Buf(p), 3) = Stream(3, proc[p].total[3])
                /\ NBytes(Buf(p)) = proc[p].total[2] + proc[p].total[3]

\* the same two statements for the fallback poller alone
C1_StdoutExactSelect == poller = "select" => C1_StdoutExact
C2_BothChannelsOnceSelect == poller = "select" => C2_BothChannelsOnce

\* registered descriptors are open pipe ends (iop.register never sees a closed one)
RegisteredOpen == \A x \in Registered : Open(x)

\* C3: wait() returns only with an empty tracked set, and then both the stdout
\* and the stderr pipe of every launched process were closed by the child and
\* taken out of the registry; it never returns while a pipe is still open.
C3_ReturnsOnlyWhenAllClosed ==
    WaitReturned =>
        /\ Tracked = {}
        /\ \A p \in Launched : \A ch \in CH : proc[p].wclosed[ch]
        /\ Registered = {}

C3_Witness ==
    /\ WaitReturned
    /\ Cardinality(Launched) = 2
    /\ \A p \in Launched : proc[p].total[2] > 0 /\ p \in DOMAIN data

\* C4: once inside wait(), with children that finish writing and close both
\* pipes, wait() returns with nothing tracked: no process stays tracked for ever.
C4_WaitTerminates == InWait ~> (WaitReturned /\ Tracked = {})

C4_Witness ==
    /\ WaitReturned
    /\ Cardinality(Launched) = 2
    /\ \E p \in Launched : proc[p].total[2] > 0 /\ proc[p].total[3] > 0

\* C5: after wait() every launched process that wrote something has an entry
\* in data holding exactly its own bytes, channel by channel.
C5_EachOwnBytes ==
    (WaitReturned /\ Cardinality(Launched) >= 2) =>
        \A p \in Launched :
            /\ proc[p].total[2] + proc[p].total[3] > 0 => p \in DOMAIN data
            /\ \A ch \in CH : Chan(Buf(p), ch) = Stream(ch, proc[p].total[ch])
            /\ NBytes(Buf(p)) = proc[p].total[2] + proc[p].total[3]

C5_EachOwnBytesSelect == poller = "select" => C5_EachOwnBytes

\* what is true of C5 whatever the poller: bytes only ever go to the buffer
\* of the process that wrote them, in order, none of them twice
OwnBytesOnly ==
    \A p \in DOMAIN data :
        /\ p \in Launched
        /\ \A ch \in CH : Chan(data[p], ch) = Stream(ch, proc[p].rd[ch])
        /\ NBytes(data[p]) = proc[p].rd[2] + proc[p].rd[3]

\* C6: the step that retires a process leaves its buffer as it was, and so
\* does every later step.
C6_RetiredBufferKept ==
    [][\A p \in Launched : (p \notin Tracked') =>
            /\ (p \in DOMAIN data) = (p \in DOMAIN data')
            /\ Buf(p)' = Buf(p)]_vars

C6_Witness ==
    /\ InWait
    /\ \E p \in Launched \ Tracked : p \in DOMAIN data /\ NBytes(data[p]) > 0
    /\ \E q \in Tracked : ~Exited(q)

\* C7: a process that writes nothing and exits is retired and wait() returns
\* with nothing tracked, so it holds up no other process; after wait() it has
\* no bytes in data.
Silent(p) == proc[p].total[2] = 0 /\ proc[p].total[3] = 0
C7_SilentProcessRetired ==
    /\ [](WaitReturned => \A p \in Launched : Silent(p) => NBytes(Buf(p)) = 0)
    /\ (InWait /\ \E p \in Tracked : Silent(p)) ~> (WaitReturned /\ Tracked = {})

C7_Witness ==
    /\ WaitReturned
    /\ \E p \in Launched : Silent(p) /\ p \notin DOMAIN data
    /\ \E q \in Launched : ~Silent(q) /\ q \in DOMAIN data

\* C8: a process is tracked exactly while one of its stdout/stderr endpoints
\* is registered, its stdin endpoint stays registered throughout, and the
\* step that retires it leaves just the stdin endpoint of its three.
RegisteredOf(p) == {x \in DOMAIN fds : fds[x] = p}
C8_TrackedIffOutOrErr ==
    \A p \in Launched :
        /\ (p \in Tracked) = (\E x \in RegisteredOf(p) : fdtype[x] \in {FDOUT, FDERR})
        /\ p \in Tracked =>
              /\ processes[p][1] \in RegisteredOf(p)
              /\ RegisteredOf(p) \subseteq {processes[p][i] : i \in 1..3}
C8_RetiredAtOneLeft ==
    /\ []C8_TrackedIffOutOrErr
    /\ [][\A p \in Tracked : (p \notin Tracked') =>
            {x \in {processes[p][i] : i \in 1..3} : x \in DOMAIN fds'} = {processes[p][1]}]_vars

C8_Witness ==
    /\ InWait
    /\ \E p \in Tracked : Cardinality(RegisteredOf(p)) = 2
    /\ \E p \in Launched \ Tracked : Cardinality(RegisteredOf(p)) = 1

\* C9: execute() is one step that returns the new pid, adds its entry and
\* its three endpoints with their roles, and touches neither the buffers nor
\* any other tracked process; it is enabled whatever the children have done.
C9_ExecuteRegisters ==
    [][nextpid' # nextpid =>
        LET p == nextpid
            t == processes'[p]
        IN /\ ret' = <<"pid", p>>
           /\ pc = "idle" /\ pc' = "idle"
           /\ p \notin Tracked /\ Tracked' = Tracked \cup {p}
           /\ Cardinality({t[1], t[2], t[3]}) = 3
           /\ \A i \in 1..3 : t[i] \in DOMAIN fds' /\ fds'[t[i]] = p
           /\ fdtype'[t[1]] = FDIN /\ fdtype'[t[2]] = FDOUT /\ fdtype'[t[3]] = FDERR
           /\ Cardinality({FDIN, FDOUT, FDERR}) = 3
           /\ data' = data
           /\ \A q \in Tracked :
                /\ processes'[q] = processes[q]
                /\ processgbprot'[q] = processgbprot[q]
                /\ \A i \in 1..3 :
                     /\ Get(fds', processes[q][i]) = Get(fds, processes[q][i])
                     /\ fdtype'[processes[q][i]] = fdtype[processes[q][i]]]_vars

C9_Witness ==
    /\ ret = <<"pid", 2>>
    /\ Tracked = {1, 2}
    /\ proc[1].written[2] > 0
    /\ ~Exited(1)

\* C10: a failed spawn is reported by that execute() call and leaves the
\* manager, the children and the control state as they were.
C10_SpawnFailureNoEffect ==
    [][(ret'[1] = "SpawnError" /\ ret' # ret) =>
        /\ pc = "idle" /\ pc' = "idle"
        /\ UNCHANGED <<processes, processgbprot, fds, fdtype, data, active, proc, nextpid>>]_vars

C10_Witness ==
    /\ ret[1] = "SpawnError"
    /\ Tracked # {}
    /\ DOMAIN data # {}

\* C11: when the readiness mechanism fails, wait() aborts and leaves every
\* buffer as it was: none is removed, none is shortened.
Aborted == pc = "idle" /\ ret[1] = "MultiplexError"
C11_AbortKeepsBuffers ==
    [][(Aborted' /\ pc = "loop") =>
        /\ DOMAIN data \subseteq DOMAIN data'
        /\ \A p \in DOMAIN data : data'[p] = data[p]]_vars

C11_Witness ==
    /\ Aborted
    /\ \E p \in Tracked : p \in DOMAIN data /\ NBytes(data[p]) > 0 /\ ~Exited(p)

\* C12: while a process is tracked its stdin endpoint is in the registry,
\* mapped to it with the input role, and its file object is open.
C12_StdinStaysRegistered ==
    \A p \in Tracked :
        /\ processes[p][1] \in DOMAIN fds
        /\ fds[processes[p][1]] = p
        /\ fdtype[processes[p][1]] = FDIN
        /\ ~processgbprot[p][1]

C12_Witness ==
    /\ InWait
    /\ \E p \in Tracked :
         /\ processgbprot[p][2]
         /\ processes[p][2] \notin DOMAIN fds
         /\ fds[processes[p][1]] = p

\* C13: at the top of every iteration of the wait loop the descriptors given
\* to the poller are exactly the stdout/stderr descriptors of tracked
\* processes that are still in the registry: no stdin descriptor, no closed
\* descriptor, none of a retired process, and none of them left out.
StillRegistered ==
    {x \in FDS : \E p \in Tracked : \E i \in 2..3 :
        processes[p][i] = x /\ x \in DOMAIN fds /\ fds[x] = p /\ ~processgbprot[p][i]}
C13_WatchSetExact ==
    (pc = "loop" /\ Tracked # {}) =>
        /\ Registered = StillRegistered
        /\ \A x \in Registered :
             /\ fds[x] \in Tracked
             /\ Open(x)
             /\ \A p \in Tracked : processes[p][1] # x \/ processgbprot[p][1]

C13_Witness ==
    /\ pc = "loop"
    /\ Cardinality(Tracked) = 2
    /\ Cardinality(Registered) = 2
    /\ \E p \in Tracked : RegisteredOf(p) \cap Registered = {}

\* C14: a retired process has no endpoint left in the endpoint-to-process
\* registry nor in the endpoint-role registry, and after wait() has returned
\* both registries are empty.
C14_RetiredLeavesNoEntries ==
    /\ \A p \in Launched \ Tracked : RegisteredOf(p) = {}
    /\ WaitReturned => (DOMAIN fds = {} /\ DOMAIN fdtype = {})

\* what the code does keep of C14: nothing of a retired process is left in
\* processes or processgbprot, and only its stdin descriptor is left in fds
RetiredLeavesStdinOnly ==
    /\ DOMAIN processgbprot = DOMAIN processes
    /\ \A p \in Launched \ Tracked :
         \A x \in RegisteredOf(p) : fdtype[x] = FDIN

\* C15: a stdout/stderr endpoint leaves the registry only in the step that
\* handles an event for it, only when its pipe is at end of stream (closed by
\* the child, no byte unread), and every hang-up or zero-length read removes it.
Handled == active \ active'
PipeAtEnd(x) ==
    LET p == Owner(x)
        ch == Index(processes[p], x)
    IN proc[p].wclosed[ch] /\ Avail(p, ch) = 0
C15_Removal ==
    /\ \A x \in Registered : (x \notin DOMAIN fds') =>
          /\ \E ev \in Handled : ev[1] = x
          /\ PipeAtEnd(x)
    /\ \A ev \in Handled :
          (ev[2] = EPOLLHUP \/ (ev[2] = READ /\ PipeAtEnd(ev[1]))) => ev[1] \notin DOMAIN fds'
C15_RemovedOnlyAtEndOfStream == [][C15_Removal]_vars
C15_RemovedOnlyAtEndOfStreamSelect == [][poller = "select" => C15_Removal]_vars

\* the event loop's step and the function After are the same handler
HandlerIsAfter ==
    [][\A ev \in Handled :
        LET p == Owner(ev[1])
            ch == Index(processes[p], ev[1])
        IN [fds |-> fds', processes |-> processes',
            processgbprot |-> processgbprot', data |-> data']
           = After(ev[1], ev[2], Min(ChunkSize, Avail(p, ch)))]_vars

\* C16: from one manager state, a data-ready event whose read returns no byte
\* and a hang-up event for the same endpoint give the same registry, tracked
\* set, buffers and file objects.
C16_ZeroReadSameAsHangup ==
    \A x \in Registered :
        PipeAtEnd(x) => After(x, READ, 0) = After(x, EPOLLHUP, 0)

\* what the code does keep of C16: the two agree on everything but the file object
ZeroReadSameButHandle ==
    \A x \in Registered :
        PipeAtEnd(x) =>
            LET r == After(x, READ, 0)
                h == After(x, EPOLLHUP, 0)
            IN /\ r.fds = h.fds /\ r.processes = h.processes /\ r.data = h.data
               /\ DOMAIN r.processgbprot = DOMAIN h.processgbprot

\* a is a prefix of b as byte strings
BytePrefix(a, b) ==
    \/ a = <<>>
    \/ /\ Len(a) <= Len(b)
       /\ \A k \in 1..(Len(a) - 1) : a[k] = b[k]
       /\ a[Len(a)][1] = b[Len(a)][1]
       /\ a[Len(a)][2] = b[Len(a)][2]
       /\ a[Len(a)][3] <= b[Len(a)][3]
       /\ (a[Len(a)][3] < b[Len(a)][3] => Len(a) = Len(b))

\* C17: every step leaves each buffer as it was or longer at the end, by at
\* most ChunkSize bytes and for one process per handled event, and the bytes
\* of one channel are in the buffer in the order the child wrote them.
ChannelInOrder ==
    \A p \in DOMAIN data : \A ch \in CH :
        LET c == Chan(data[p], ch)
        IN c = <<>> \/ (Len(c) = 1 /\ c[1][2] = 0 /\ c[1][3] <= proc[p].written[ch])
AppendStep ==
    /\ \A p \in DOMAIN data :
         /\ p \in DOMAIN data'
         /\ BytePrefix(data[p], data'[p])
    /\ \A q \in DOMAIN data' :
         /\ NBytes(Buf(q)') - NBytes(Buf(q)) <= ChunkSize
         /\ Buf(q)' # Buf(q) => Cardinality(Handled) = 1
    /\ Cardinality({r \in DOMAIN data' : Buf(r)' # Buf(r)}) <= 1
C17_AppendOnly ==
    /\ []ChannelInOrder
    /\ [][AppendStep]_vars

C17_Witness ==
    \E p \in DOMAIN data :
        /\ Len(data[p]) = 3
        /\ data[p][1][1] = 2 /\ data[p][2][1] = 3 /\ data[p][3][1] = 2
        /\ data[p][1][3] = ChunkSize

\* C18: handling an event of process P leaves the entry, the file objects,
\* the registered descriptors and the buffer of every other process alone.
C18_Frame ==
    \A ev \in Handled :
        \A q \in (Launched \cup DOMAIN data) \ {Get(fds, ev[1])} :
            /\ (q \in Tracked) = (q \in Tracked')
            /\ q \in Tracked =>
                 /\ processes'[q] = processes[q]
                 /\ processgbprot'[q] = processgbprot[q]
            /\ RegisteredOf(q)' = RegisteredOf(q)
            /\ (q \in DOMAIN data) = (q \in DOMAIN data')
            /\ Buf(q)' = Buf(q)
C18_OnlyOwnState == [][C18_Frame]_vars

C18_Witness ==
    /\ pc = "for"
    /\ Cardinality(Tracked) = 2
    /\ \A p \in Tracked : p \in DOMAIN data /\ NBytes(data[p]) > 0
    /\ \E ev \in active : ev[2] = READ
    /\ \E ev \in active : ev[2] # READ

\* C19: in a round after wait() has returned, with descriptor numbers of
\* retired processes handed out again and their entries still in the
\* registries, every polled descriptor and every event belongs to the tracked
\* process that holds it, a process is retired only when the child has closed
\* both pipes and both have left the registry, and is tracked only while one
\* of the two is still registered.
StaleEntries == \E x \in DOMAIN fds : fds[x] \notin Tracked
C19_ReuseSafe ==
    /\ \A x \in Registered :
         /\ fds[x] \in Tracked
         /\ Open(x) /\ Owner(x) = fds[x]
         /\ \E i \in 2..3 : processes[fds[x]][i] = x
    /\ \A ev \in active :
         /\ Get(fds, ev[1]) \in Tracked
         /\ Open(ev[1]) /\ Owner(ev[1]) = fds[ev[1]]
    /\ \A p \in Launched \ Tracked :
         /\ \A ch \in CH : proc[p].wclosed[ch]
         /\ \A x \in RegisteredOf(p) : fdtype[x] = FDIN
    /\ \A p \in Tracked :
         \E i \in 2..3 : processes[p][i] \in DOMAIN fds /\ fds[processes[p][i]] = p

\* a later round is under way on a descriptor number that still carries the
\* role of another endpoint of a retired process, whose stdin entry is still there
C19_Witness ==
    /\ InWait
    /\ StaleEntries
    /\ \E p \in Tracked : \E x \in DOMAIN fds :
         /\ fds[x] \notin Tracked
         /\ x + 1 = processes[p][1]
         /\ NBytes(Buf(p)) > 0

====
